---- MODULE Spec2Model ----
(***************************************************************************)
(* Model of the Discord backend adapter (discordb.py): the identity types  *)
(* DiscordPerson / DiscordRoom / DiscordCategory / DiscordRoomOccupant,    *)
(* the event bridge (on_ready, on_message, on_member_update) and the       *)
(* outbound dispatch (send_message), together with the parts of the live   *)
(* client connection they read: the channel cache, the user cache and the  *)
(* event loop onto which coroutines are submitted.                         *)
(*                                                                         *)
(* Python strings are TLA+ strings, except message bodies and room         *)
(* addresses, which are sequences (of character codes / of one-character   *)
(* strings) because the code slices them.  Python's None is None for an    *)
(* Optional[str] and NoId for an Optional channel or user id.              *)
(***************************************************************************)
EXTENDS Integers, Sequences, FiniteSets, TLC

VARIABLES
    channels,        \* client channel cache, in get_all_channels() order
    nextId,          \* next channel snowflake the service hands out
    users,           \* ids in the client's user cache (get_user hits)
    rooms,           \* the DiscordRoom / DiscordCategory objects held by callers
    pc,              \* per room object: the blocking call its caller is inside
    call,            \* per room object: the most recent call and its outcome
    loop,            \* coroutines submitted to client.loop and not yet finished
    bot_identifier,  \* DiscordBackend.bot_identifier (an id, or NoId for None)
    event,           \* the event most recently handled by the bridge, with its output
    sent,            \* the most recent send_message call, with what it submitted
    person,          \* the most recent DiscordPerson / RoomOccupant operation
    done             \* the coroutine that finished most recently, with its outcome

vars == <<channels, nextId, users, rooms, pc, call, loop, bot_identifier, event, sent, person, done>>

-----------------------------------------------------------------------------
(* Program constants and the representation of None. *)

DISCORD_MESSAGE_SIZE_LIMIT == 4096

None == "None"
NoId == 0

(* Bounds of the model. *)
MaxChannelId == 2   \* the service hands out the channel ids 1..MaxChannelId
MaxTasks == 1       \* coroutines pending on the loop at once (room operations)
MaxChunks == 2      \* bodies of up to MaxChunks full slices, plus one character

ChannelNames == {"a", "b"}
ChannelKinds == {"text", "category"}
Guilds == <<1>>
GuildIds == {Guilds[i] : i \in DOMAIN Guilds}
ClientUser == [id |-> 40, name |-> "errbot"]
UserIds == {40, 41, 42}
RoomIds == {1}       \* the room object under study; every other holder of rooms acts
                    \* on it only through the channel cache (on_guild_channel_*)
ChannelIds == 1..MaxChannelId

-----------------------------------------------------------------------------
(* The live connection: lookups by id. *)

LiveIds == {channels[i].id : i \in DOMAIN channels}

NoChannel == [id |-> NoId, name |-> None, guild |-> NoId, kind |-> "none"]

get_channel(id) ==
    IF id \in LiveIds
    THEN channels[CHOOSE i \in DOMAIN channels : channels[i].id = id]
    ELSE NoChannel

get_guild(g) == g \in GuildIds

get_user(u) == u \in users


-----------------------------------------------------------------------------
(* DiscordRoom and DiscordCategory objects. *)

NoRoom == [kind |-> "none", channel_name |-> None, guild_id |-> NoId,
           channel_id |-> NoId, destroyed |-> FALSE]

NoCall == [op |-> "none", outcome |-> "none"]

(* A value of one of the identity classes: its class, its id and, for a    *)
(* room occupant or a room, the room object it holds.                      *)
Entity(cls, id, room) == [id |-> id, cls |-> cls, room |-> room]

NoEntity == Entity("NoneType", NoId, NoRoom)

ChannelClass(kind) == IF kind = "category" THEN "category" ELSE "text"

channel_name_to_id(kind, channel_name, guild_id) ==
    LET match(ch) == /\ channel_name = ch.name
                     /\ ch.guild = guild_id
                     /\ ch.kind = ChannelClass(kind)
        matching == SelectSeq(channels, match)
    IN  IF Len(matching) = 0 THEN NoId ELSE matching[1].id

(* __init__: NoRoom stands for the ValueError of an unknown guild.  The     *)
(* field destroyed is not a field of the class: it records that destroy()  *)
(* has returned normally on this object.                                   *)
NewRoom(kind, channel_name, guild_id) ==
    IF ~get_guild(guild_id)
    THEN NoRoom
    ELSE [kind |-> kind, channel_name |-> channel_name, guild_id |-> guild_id,
          channel_id |-> channel_name_to_id(kind, channel_name, guild_id),
          destroyed |-> FALSE]

exists(room) == room.channel_id # NoId /\ get_channel(room.channel_id) # NoChannel

Task(type, r, chan, user, content, waited) ==
    [room |-> r, type |-> type, chan |-> chan, user |-> user,
     content |-> content, waited |-> waited]

Sync(r) == rooms[r].kind # "none" /\ pc[r] = "idle"

Returns(r, op, outcome) == call' = [call EXCEPT ![r] = [op |-> op, outcome |-> outcome]]

RECURSIVE Join(_)
Join(chars) == IF chars = <<>> THEN "" ELSE Head(chars) \o Join(Tail(chars))

startswith(chars, prefix) ==
    Len(chars) >= Len(prefix) /\ SubSeq(chars, 1, Len(prefix)) = prefix

(* The strings given to query_room: a room and a category of the name "a" *)
(* (the name "b" is that of other channels of the guild), and a string     *)
(* that names no room.                                                     *)
RoomAddresses == {<<"#", "a">>, <<"#", "#", "a">>, <<"a">>}

query_room(r, room) ==
    /\ rooms[r].kind = "none"
    /\ LET guild == Guilds[1]
           made == IF startswith(room, <<"#", "#">>)
                   THEN NewRoom("category", Join(SubSeq(room, 3, Len(room))), guild)
                   ELSE NewRoom("room", Join(SubSeq(room, 2, Len(room))), guild)
       IN  IF ~startswith(room, <<"#">>)
           THEN /\ Returns(r, "query_room", None)
                /\ UNCHANGED rooms
           ELSE IF made = NoRoom
           THEN /\ Returns(r, "query_room", "ValueError")
                /\ UNCHANGED rooms
           ELSE /\ rooms' = [rooms EXCEPT ![r] = made]
                /\ Returns(r, "query_room",
                           IF made.kind = "category" THEN "DiscordCategory" ELSE "DiscordRoom")
    /\ UNCHANGED <<channels, nextId, users, pc, loop, bot_identifier, event, sent, person, done>>

create_NoExistenceCheck(r) ==
    /\ Sync(r)
    /\ Len(loop) < MaxTasks
    /\ loop' = Append(loop, Task("create_room", r, NoId, NoId, <<>>, TRUE))
    /\ pc' = [pc EXCEPT ![r] = "create_wait"]
    /\ Returns(r, "create", "pending")
    /\ UNCHANGED <<channels, nextId, users, rooms, bot_identifier, event, sent, person, done>>

create(r) ==
    /\ Sync(r)
    /\ IF exists(rooms[r])
       THEN /\ Returns(r, "create", "RoomError: Room exists")
            /\ UNCHANGED <<loop, pc>>
       ELSE /\ Len(loop) < MaxTasks
            /\ loop' = Append(loop, Task("create_room", r, NoId, NoId, <<>>, TRUE))
            /\ pc' = [pc EXCEPT ![r] = "create_wait"]
            /\ Returns(r, "create", "pending")
    /\ UNCHANGED <<channels, nextId, users, rooms, bot_identifier, event, sent, person, done>>

destroy(r) ==
    /\ Sync(r)
    /\ IF ~exists(rooms[r])
       THEN /\ Returns(r, "destroy", "RoomError: Room doesn't exist")
            /\ UNCHANGED <<loop, pc>>
       ELSE /\ Len(loop) < MaxTasks
            /\ loop' = Append(loop, Task("delete", r, rooms[r].channel_id, NoId, <<>>, TRUE))
            /\ pc' = [pc EXCEPT ![r] = "destroy_wait"]
            /\ Returns(r, "destroy", "pending")
    /\ UNCHANGED <<channels, nextId, users, rooms, bot_identifier, event, sent, person, done>>

join(r) ==
    /\ Sync(r)
    /\ IF rooms[r].kind = "category"
       THEN Returns(r, "join", "RuntimeError: Can't join categories")
       ELSE Returns(r, "join", "RuntimeError: Can't join channels")
    /\ UNCHANGED <<channels, nextId, users, rooms, pc, loop, bot_identifier, event, sent, person, done>>

leave_NotOverridden(r) ==
    /\ Sync(r)
    /\ Returns(r, "leave", "ok")
    /\ UNCHANGED <<channels, nextId, users, rooms, pc, loop, bot_identifier, event, sent, person, done>>

leave(r) ==
    /\ Sync(r)
    /\ IF rooms[r].kind = "category"
       THEN Returns(r, "leave", "RuntimeError: Can't leave categories")
       ELSE Returns(r, "leave", "ok")
    /\ UNCHANGED <<channels, nextId, users, rooms, pc, loop, bot_identifier, event, sent, person, done>>


Identifier(cls, id) == [id |-> id, cls |-> cls]

InviteArgs ==
    {<<>>, <<Identifier("DiscordPerson", 41)>>, <<Identifier("str", NoId)>>,
     <<Identifier("DiscordPerson", 41), Identifier("str", NoId)>>}

discord_user(user_id) == IF get_user(user_id) THEN user_id ELSE NoId

invite(r, args) ==
    /\ Sync(r)
    /\ IF rooms[r].kind = "category"
       THEN /\ Returns(r, "invite", "RuntimeError: Can't invite to categories")
            /\ UNCHANGED loop
       ELSE IF ~exists(rooms[r])
       THEN /\ Returns(r, "invite", "RuntimeError: Can't invite to a non-existent channel")
            /\ UNCHANGED loop
       ELSE LET bad == {k \in DOMAIN args : args[k].cls # "DiscordPerson"}
                stop == IF bad = {} THEN Len(args) + 1
                        ELSE CHOOSE k \in bad : \A j \in bad : k <= j
                submitted == [k \in 1..(stop - 1) |->
                                 Task("set_permissions", r, rooms[r].channel_id,
                                      discord_user(args[k].id), <<>>, FALSE)]
            IN  /\ Len(loop) + Len(submitted) <= MaxTasks
                /\ loop' = loop \o submitted
                /\ IF bad = {}
                   THEN Returns(r, "invite", "ok")
                   ELSE Returns(r, "invite", "RuntimeError: Can't invite non Discord Users")
    /\ UNCHANGED <<channels, nextId, users, rooms, pc, bot_identifier, event, sent, person, done>>

name(r) ==
    /\ Sync(r)
    /\ IF rooms[r].channel_id = NoId
       THEN /\ Returns(r, "name", rooms[r].channel_name)
            /\ UNCHANGED rooms
       ELSE IF get_channel(rooms[r].channel_id) = NoChannel
       THEN /\ Returns(r, "name", "AttributeError")
            /\ UNCHANGED rooms
       ELSE /\ rooms' = [rooms EXCEPT ![r].channel_name = get_channel(rooms[r].channel_id).name]
            /\ Returns(r, "name", get_channel(rooms[r].channel_id).name)
    /\ UNCHANGED <<channels, nextId, users, pc, loop, bot_identifier, event, sent, person, done>>

-----------------------------------------------------------------------------
(* Outbound dispatch: send_message. *)

RECURSIVE range(_, _, _)
range(start, stop, step) ==
    IF start >= stop THEN <<>> ELSE <<start>> \o range(start + step, stop, step)

Min(a, b) == IF a < b THEN a ELSE b

slice(body, i, j) == SubSeq(body, i + 1, Min(j, Len(body)))

Chunks_FullSlicesOnly(body) ==
    LET starts == range(0, Len(body) - DISCORD_MESSAGE_SIZE_LIMIT + 1, DISCORD_MESSAGE_SIZE_LIMIT)
    IN  [k \in DOMAIN starts |-> slice(body, starts[k], starts[k] + DISCORD_MESSAGE_SIZE_LIMIT)]

Chunks(body) ==
    LET starts == range(0, Len(body), DISCORD_MESSAGE_SIZE_LIMIT)
    IN  [k \in DOMAIN starts |-> slice(body, starts[k], starts[k] + DISCORD_MESSAGE_SIZE_LIMIT)]

DiscordSender == {"DiscordPerson", "DiscordRoom", "DiscordCategory", "DiscordRoomOccupant"}

NoSend == [outcome |-> "none", body |-> <<>>, to |-> Identifier("none", NoId)]

send_message(to, body) ==
    /\ to.cls \in {"DiscordRoom", "DiscordCategory"} =>
          /\ to.id \in RoomIds
          /\ Sync(to.id)
          /\ to.cls = (IF rooms[to.id].kind = "category" THEN "DiscordCategory" ELSE "DiscordRoom")
    /\ IF to.cls \notin DiscordSender
       THEN /\ sent' = [outcome |-> "RuntimeError", body |-> body, to |-> to]
            /\ UNCHANGED loop
       ELSE LET messages == Chunks(body)
                room == IF to.cls = "DiscordPerson" THEN 0 ELSE to.id
                user == IF to.cls = "DiscordPerson" THEN to.id ELSE NoId
            IN  /\ Len(loop) = 0 \/ Len(loop) + Len(messages) <= MaxTasks
                /\ loop' = loop \o [k \in DOMAIN messages |->
                                       Task("send", room, NoId, user, messages[k], FALSE)]
                /\ sent' = [outcome |-> "ok", body |-> body, to |-> to]
    /\ UNCHANGED <<channels, nextId, users, rooms, pc, call, bot_identifier, event, person, done>>

-----------------------------------------------------------------------------
(* The event loop.  A submitted coroutine stays pending until the loop has *)
(* run it to completion, which happens in one step and in any order among  *)
(* the pending ones.  A channel that the service creates for a coroutine   *)
(* is in the channel cache when the coroutine completes.  A channel that   *)
(* the service deletes leaves the cache when the client handles the        *)
(* gateway's channel-delete event, which is before or after the delete     *)
(* call completes: the code of destroy() orders the two in no way.         *)
(* A caller blocked in .result(timeout=5) either is woken by its coroutine *)
(* or times out while the coroutine is still pending; the coroutine then   *)
(* stays on the loop with nobody waiting for it.                           *)

Remove(s, i) == SubSeq(s, 1, i - 1) \o SubSeq(s, i + 1, Len(s))

RECURSIVE DropChannel(_, _)
DropChannel(s, id) ==
    IF s = <<>> THEN <<>>
    ELSE IF Head(s).id = id THEN Tail(s)
    ELSE <<Head(s)>> \o DropChannel(Tail(s), id)

(* A cached channel.  origin tells who asked the service for it; deleted   *)
(* tells that the service has deleted it while the cache still holds it.   *)
Channel(id, channel_name, guild, kind, origin) ==
    [id |-> id, name |-> channel_name, guild |-> guild, kind |-> kind, origin |-> origin,
     deleted |-> FALSE]

RECURSIVE MarkDeleted(_, _)
MarkDeleted(s, id) ==
    IF s = <<>> THEN <<>>
    ELSE IF Head(s).id = id THEN <<[Head(s) EXCEPT !.deleted = TRUE]>> \o Tail(s)
    ELSE <<Head(s)>> \o MarkDeleted(Tail(s), id)

OnService(id) == id \in LiveIds /\ ~get_channel(id).deleted

Finished(type, outcome) == done' = [outcome |-> outcome, type |-> type]

Wakes(t, op, outcome) ==
    IF t.waited
    THEN /\ pc' = [pc EXCEPT ![t.room] = "idle"]
         /\ Returns(t.room, op, outcome)
    ELSE UNCHANGED <<pc, call>>

create_room(i) ==
    LET t == loop[i]
        self == rooms[t.room]
    IN  /\ t.type = "create_room"
        /\ nextId <= MaxChannelId
        /\ channels' = Append(channels,
               Channel(nextId, self.channel_name, self.guild_id, ChannelClass(self.kind), "bot"))
        /\ nextId' = nextId + 1
        /\ rooms' = [rooms EXCEPT ![t.room].channel_id = nextId]
        /\ loop' = Remove(loop, i)
        /\ Wakes(t, "create", "ok")
        /\ Finished("create_room", "ok")
        /\ UNCHANGED <<users, bot_identifier, event, sent, person>>

delete(i, evicted) ==
    LET t == loop[i]
    IN  /\ t.type = "delete"
        /\ loop' = Remove(loop, i)
        /\ IF OnService(t.chan)
           THEN /\ channels' = IF evicted THEN DropChannel(channels, t.chan)
                                ELSE MarkDeleted(channels, t.chan)
                /\ rooms' = [rooms EXCEPT ![t.room].destroyed = @ \/ t.waited]
                /\ Wakes(t, "destroy", "ok")
                /\ Finished("delete", "ok")
           ELSE /\ Wakes(t, "destroy", "NotFound")
                /\ Finished("delete", "NotFound")
                /\ UNCHANGED <<channels, rooms>>
        /\ UNCHANGED <<nextId, users, bot_identifier, event, sent, person>>

set_permissions(i) ==
    LET t == loop[i]
    IN  /\ t.type = "set_permissions"
        /\ loop' = Remove(loop, i)
        /\ IF ~OnService(t.chan) THEN Finished("set_permissions", "NotFound")
           ELSE IF t.user = NoId THEN Finished("set_permissions", "InvalidArgument")
           ELSE Finished("set_permissions", "ok")
        /\ UNCHANGED <<channels, nextId, users, rooms, pc, call, bot_identifier, event, sent, person>>

Messageable == {"text"}

send(i) ==
    LET t == loop[i]
    IN  /\ t.type = "send"
        /\ loop' = Remove(loop, i)
        /\ IF t.room = 0
           THEN IF get_user(t.user)
                THEN Finished("send", "ok")
                ELSE Finished("send", "AttributeError")
           ELSE IF ~exists(rooms[t.room])
                THEN Finished("send", "RuntimeError: Can't send a message on a non-existent channel")
                ELSE IF get_channel(rooms[t.room].channel_id).kind \notin Messageable
                THEN Finished("send", "RuntimeError: Channel doesn't support sending text messages")
                ELSE IF ~OnService(rooms[t.room].channel_id)
                THEN Finished("send", "NotFound")
                ELSE Finished("send", "ok")
        /\ UNCHANGED <<channels, nextId, users, rooms, pc, call, bot_identifier, event, sent, person>>

timeout(r) ==
    /\ pc[r] \in {"create_wait", "destroy_wait"}
    /\ \E i \in DOMAIN loop :
          /\ loop[i].room = r
          /\ loop[i].waited
          /\ loop' = [loop EXCEPT ![i].waited = FALSE]
    /\ pc' = [pc EXCEPT ![r] = "idle"]
    /\ Returns(r, call[r].op, "TimeoutError")
    /\ UNCHANGED <<channels, nextId, users, rooms, bot_identifier, event, sent, person, done>>

-----------------------------------------------------------------------------
(* The rest of the service: what other clients do to the guild, as the     *)
(* client's caches come to show it.                                        *)

on_guild_channel_create(channel_name, guild, kind) ==
    /\ nextId <= MaxChannelId
    /\ channels' = Append(channels, Channel(nextId, channel_name, guild, kind, "external"))
    /\ nextId' = nextId + 1
    /\ UNCHANGED <<users, rooms, pc, call, loop, bot_identifier, event, sent, person, done>>

on_guild_channel_delete(id) ==
    /\ id \in LiveIds
    /\ channels' = DropChannel(channels, id)
    /\ UNCHANGED <<nextId, users, rooms, pc, call, loop, bot_identifier, event, sent, person, done>>

on_member_join(u) ==
    /\ u \notin users
    /\ users' = users \cup {u}
    /\ UNCHANGED <<channels, nextId, rooms, pc, call, loop, bot_identifier, event, sent, person, done>>

on_member_remove(u) ==
    /\ u \in users
    /\ users' = users \ {u}
    /\ UNCHANGED <<channels, nextId, rooms, pc, call, loop, bot_identifier, event, sent, person, done>>

-----------------------------------------------------------------------------

Result(op, obj, other, value, equal, error) ==
    [op |-> op, obj |-> obj, other |-> other, value |-> value, equal |-> equal, error |-> error]

NoEvent == [type |-> "none"]
NoPerson == Result("none", NoEntity, NoEntity, None, FALSE, "none")
NoDone == [outcome |-> "none", type |-> "none"]

Init ==
    /\ channels = <<>>
    /\ nextId = 1
    /\ users = UserIds
    /\ rooms = [r \in RoomIds |-> NoRoom]
    /\ pc = [r \in RoomIds |-> "idle"]
    /\ call = [r \in RoomIds |-> NoCall]
    /\ loop = <<>>
    /\ bot_identifier = NoId
    /\ event = NoEvent
    /\ sent = NoSend
    /\ person = NoPerson
    /\ done = NoDone

RoomBodies == {<<104, 105>>}

Next ==
    \/ \E r \in RoomIds, room \in RoomAddresses : query_room(r, room)
    \/ \E r \in RoomIds : create(r)
    \/ \E r \in RoomIds : destroy(r)
    \/ \E r \in RoomIds : join(r)
    \/ \E r \in RoomIds : leave(r)
    \/ \E r \in RoomIds, args \in InviteArgs : invite(r, args)
    \/ \E r \in RoomIds : name(r)
    \/ \E r \in RoomIds, cls \in {"DiscordRoom", "DiscordCategory"}, body \in RoomBodies :
          send_message(Identifier(cls, r), body)
    \/ \E i \in DOMAIN loop : create_room(i)
    \/ \E i \in DOMAIN loop, evicted \in BOOLEAN : delete(i, evicted)
    \/ \E i \in DOMAIN loop : set_permissions(i)
    \/ \E i \in DOMAIN loop : send(i)
    \/ \E r \in RoomIds : timeout(r)
    \/ \E channel_name \in ChannelNames, guild \in GuildIds, kind \in ChannelKinds :
          on_guild_channel_create(channel_name, guild, kind)
    \/ \E id \in ChannelIds : on_guild_channel_delete(id)

Spec == Init /\ [][Next]_vars

(* Outbound dispatch on its own: bodies around the multiples of the size   *)
(* limit, and the 5000-character body of the end-to-end scenario.          *)

BodyLengths ==
    {n \in 0..(MaxChunks * DISCORD_MESSAGE_SIZE_LIMIT + 1) :
        \/ n = 5000
        \/ \E k \in 0..MaxChunks, d \in {-1, 0, 1} : n = k * DISCORD_MESSAGE_SIZE_LIMIT + d}

Body(length) == [i \in 1..length |-> 32 + (i % 95)]

Bodies == {Body(length) : length \in BodyLengths}

SendRecipients == {Identifier("DiscordPerson", 41), Identifier("NoneType", NoId)}

Recipients == {to.id : to \in SendRecipients} \cap UserIds

NextSend ==
    \/ \E to \in SendRecipients, body \in Bodies : send_message(to, body)
    \/ \E i \in DOMAIN loop : send(i)
    \/ \E u \in Recipients : on_member_join(u)
    \/ \E u \in Recipients : on_member_remove(u)

SpecSend == Init /\ [][NextSend]_vars


-----------------------------------------------------------------------------
(* DiscordPerson and DiscordRoomOccupant. *)

UserRecord ==
    [u \in UserIds |->
        IF u = ClientUser.id THEN [name |-> ClientUser.name, discriminator |-> "0001"]
        ELSE IF u = 41 THEN [name |-> "ann", discriminator |-> "0001"]
        ELSE [name |-> "ann", discriminator |-> "0002"]]

DiscordPerson(user_id) == Entity("DiscordPerson", user_id, NoRoom)

IsDiscordPerson(e) == e.cls \in {"DiscordPerson", "DiscordRoomOccupant"}

username(user_id) ==
    IF discord_user(user_id) = NoId
    THEN "<" \o ToString(user_id) \o ">"
    ELSE UserRecord[user_id].name

fullname(user_id) ==
    IF discord_user(user_id) = NoId
    THEN None
    ELSE UserRecord[user_id].name \o "#" \o UserRecord[user_id].discriminator

aclattr(user_id) == fullname(user_id)

DiscordPerson_eq(self, other) == IsDiscordPerson(other) /\ aclattr(other.id) = aclattr(self.id)

DiscordRoomOccupant_eq(self, other) ==
    /\ other.cls = "DiscordRoomOccupant"
    /\ other.id = self.id
    /\ other.room.channel_id = self.room.channel_id

from_id(channel_id) ==
    IF get_channel(channel_id) = NoChannel
    THEN NoRoom
    ELSE NewRoom("room", get_channel(channel_id).name, get_channel(channel_id).guild)

DiscordRoomOccupant(user_id, channel_id) ==
    Entity("DiscordRoomOccupant", user_id, from_id(channel_id))

PersonOnly == UNCHANGED <<channels, nextId, users, rooms, pc, call, loop, bot_identifier, event, sent, done>>

new_person(user_id) ==
    /\ person' = Result("init", DiscordPerson(user_id), NoEntity, None, FALSE, "none")
    /\ PersonOnly

new_occupant(user_id, channel_id) ==
    /\ IF from_id(channel_id) = NoRoom
       THEN person' = Result("init", NoEntity, NoEntity, None, FALSE, "ValueError")
       ELSE person' = Result("init", DiscordRoomOccupant(user_id, channel_id), NoEntity,
                             None, FALSE, "none")
    /\ PersonOnly

read_username ==
    /\ IsDiscordPerson(person.obj)
    /\ person' = Result("username", person.obj, NoEntity, username(person.obj.id), FALSE, "none")
    /\ PersonOnly

read_fullname ==
    /\ IsDiscordPerson(person.obj)
    /\ person' = Result("fullname", person.obj, NoEntity, fullname(person.obj.id), FALSE, "none")
    /\ PersonOnly

str(self) ==
    IF self.cls = "DiscordPerson"
    THEN IF fullname(self.id) = None
         THEN Result("str", self, NoEntity, None, FALSE, "TypeError")
         ELSE Result("str", self, NoEntity, fullname(self.id), FALSE, "none")
    ELSE IF fullname(self.id) = None
         THEN Result("str", self, NoEntity, None, FALSE, "TypeError")
         ELSE IF self.room.channel_id = NoId
         THEN Result("str", self, NoEntity,
                     fullname(self.id) \o "@" \o self.room.channel_name, FALSE, "none")
         ELSE IF get_channel(self.room.channel_id) = NoChannel
         THEN Result("str", self, NoEntity, None, FALSE, "AttributeError")
         ELSE Result("str",
                     [self EXCEPT !.room.channel_name = get_channel(self.room.channel_id).name],
                     NoEntity,
                     fullname(self.id) \o "@" \o get_channel(self.room.channel_id).name,
                     FALSE, "none")

read_str ==
    /\ IsDiscordPerson(person.obj)
    /\ person' = str(person.obj)
    /\ PersonOnly

compare(other) ==
    /\ IsDiscordPerson(person.obj)
    /\ person' = Result("eq", person.obj, other, None,
                        IF person.obj.cls = "DiscordRoomOccupant"
                        THEN DiscordRoomOccupant_eq(person.obj, other)
                        ELSE DiscordPerson_eq(person.obj, other),
                        "none")
    /\ PersonOnly

Others == {DiscordPerson(u) : u \in UserIds} \cup {Entity("str", NoId, NoRoom)}

NextPerson ==
    \/ \E u \in UserIds : new_person(u)
    \/ \E u \in UserIds, c \in ChannelIds : new_occupant(u, c)
    \/ read_username
    \/ read_fullname
    \/ read_str
    \/ \E other \in Others : compare(other)
    \/ \E u \in UserIds : on_member_join(u)
    \/ \E u \in UserIds : on_member_remove(u)
    \/ \E guild \in GuildIds : on_guild_channel_create("a", guild, "text")
    \/ \E id \in ChannelIds : on_guild_channel_delete(id)

SpecPerson == Init /\ [][NextPerson]_vars

(* C1: two DiscordPerson values are equal exactly when their ids are       *)
(* equal, whatever the user cache holds.                                   *)
C1_EqualIffSameId ==
    (person.op = "eq" /\ person.obj.cls = "DiscordPerson" /\ person.other.cls = "DiscordPerson")
        => (person.equal <=> person.obj.id = person.other.id)

(* C8: reading a display attribute of a person or room occupant never      *)
(* raises and never yields None, also when the user or the channel is no   *)
(* longer known to the connection; a room's name is read without an error  *)
(* as well.                                                                *)
C8_DisplayNeverFails ==
    /\ person.op \in {"username", "fullname", "str"} =>
          (person.error = "none" /\ person.value # None)
    /\ \A r \in RoomIds : call[r].op = "name" => call[r].outcome # "AttributeError"

-----------------------------------------------------------------------------
(* The event bridge. *)

BridgeOnly == UNCHANGED <<channels, nextId, users, rooms, pc, call, loop, sent, person, done>>

on_ready ==
    /\ bot_identifier' = IF bot_identifier = NoId THEN ClientUser.id ELSE bot_identifier
    /\ event' = [type |-> "ready"]
    /\ BridgeOnly

Message(msg, accepted, frm, to, message_callbacks, mention_callbacks, occupants, error) ==
    [type |-> "message", to |-> to, error |-> error, msg |-> msg, accepted |-> accepted,
     frm |-> frm, message_callbacks |-> message_callbacks,
     mention_callbacks |-> mention_callbacks, occupants |-> occupants]

(* msg.channel is the channel the message arrived on: a DM channel (NoId   *)
(* here), which has neither a name nor a guild, or a live guild channel of *)
(* a kind that carries messages.                                           *)
(* accepted is what the framework's process_message answers.               *)
on_message(msg, accepted) ==
    /\ IF msg.private THEN msg.channel = NoId
       ELSE msg.channel \in LiveIds /\ get_channel(msg.channel).kind \in Messageable
    /\ LET frm == IF msg.private
                  THEN DiscordPerson(msg.author)
                  ELSE DiscordRoomOccupant(msg.author, msg.channel)
           to == IF msg.private
                 THEN IF bot_identifier = NoId THEN NoEntity ELSE DiscordPerson(bot_identifier)
                 ELSE Entity("DiscordRoom", from_id(msg.channel).channel_id, from_id(msg.channel))
           typing_fails == accepted /\ discord_user(frm.id) = NoId
           dispatched == IF accepted /\ ~typing_fails THEN 1 ELSE 0
       IN  IF typing_fails
           THEN event' = Message(msg, accepted, frm, to, 0, 0, <<>>, "AttributeError")
           ELSE IF msg.mentions = <<>>
           THEN event' = Message(msg, accepted, frm, to, dispatched, 0, <<>>, "none")
           ELSE IF msg.private
           THEN event' = Message(msg, accepted, frm, to, dispatched, 0, <<>>, "AttributeError")
           ELSE event' = Message(msg, accepted, frm, to, dispatched, 1,
                                 [k \in DOMAIN msg.mentions |->
                                     DiscordRoomOccupant(msg.mentions[k], msg.channel)],
                                 "none")
    /\ UNCHANGED bot_identifier
    /\ BridgeOnly

Status == {"online", "offline", "idle", "dnd", "invisible"}

ONLINE == "online"
OFFLINE == "offline"
AWAY == "away"
DND == "dnd"

Presence(identifier, status) == [identifier |-> identifier, status |-> status]

on_member_update_idleAsOnline(before, after) ==
    /\ event' = [type |-> "member_update", before |-> before, after |-> after,
                 presence |->
                    IF before.status # after.status
                    THEN IF after.status \in {"online", "idle"}
                         THEN <<Presence(DiscordPerson(after.id), ONLINE)>>
                         ELSE IF after.status = "offline"
                         THEN <<Presence(DiscordPerson(after.id), OFFLINE)>>
                         ELSE IF after.status = "dnd"
                         THEN <<Presence(DiscordPerson(after.id), DND)>>
                         ELSE <<>>
                    ELSE <<>>]
    /\ UNCHANGED bot_identifier
    /\ BridgeOnly

on_member_update(before, after) ==
    /\ event' = [type |-> "member_update", before |-> before, after |-> after,
                 presence |->
                    IF before.status # after.status
                    THEN IF after.status = "online"
                         THEN <<Presence(DiscordPerson(after.id), ONLINE)>>
                         ELSE IF after.status = "offline"
                         THEN <<Presence(DiscordPerson(after.id), OFFLINE)>>
                         ELSE IF after.status = "idle"
                         THEN <<Presence(DiscordPerson(after.id), AWAY)>>
                         ELSE IF after.status = "dnd"
                         THEN <<Presence(DiscordPerson(after.id), DND)>>
                         ELSE <<>>
                    ELSE <<>>]
    /\ UNCHANGED bot_identifier
    /\ BridgeOnly

Member(id, status) == [id |-> id, status |-> status]

Mentions == {<<>>, <<41>>}

IncomingMessages ==
    [private : BOOLEAN, channel : ChannelIds \cup {NoId}, author : UserIds, mentions : Mentions]

NextBridge ==
    \/ on_ready
    \/ \E msg \in IncomingMessages, accepted \in BOOLEAN : on_message(msg, accepted)
    \/ \E u \in UserIds, b \in Status, a \in Status :
          on_member_update(Member(u, b), Member(u, a))
    \/ \E u \in UserIds : on_member_join(u)
    \/ \E u \in UserIds : on_member_remove(u)
    \/ \E guild \in GuildIds : on_guild_channel_create("a", guild, "text")
    \/ \E id \in ChannelIds : on_guild_channel_delete(id)

SpecBridge == Init /\ [][NextBridge]_vars

(* DiscordBackend.rooms(): a room from_id of every channel of the cache,   *)
(* in get_all_channels() order.                                            *)
DiscordBackend_rooms ==
    /\ event' = [type |-> "rooms",
                 value |-> [k \in DOMAIN channels |-> from_id(channels[k].id)]]
    /\ UNCHANGED bot_identifier
    /\ BridgeOnly

RoomMessages == {msg \in IncomingMessages : ~msg.private /\ msg.mentions = <<>>}

(* Rooms by id: a guild whose channels come and go, of every name and      *)
(* kind, the room messages that arrive on them, and rooms().               *)
NextRooms ==
    \/ \E msg \in RoomMessages, accepted \in BOOLEAN : on_message(msg, accepted)
    \/ DiscordBackend_rooms
    \/ \E channel_name \in ChannelNames, guild \in GuildIds, kind \in ChannelKinds :
          on_guild_channel_create(channel_name, guild, kind)
    \/ \E id \in ChannelIds : on_guild_channel_delete(id)

SpecRooms == Init /\ [][NextRooms]_vars

StatusMapping == [online |-> "online", offline |-> "offline", idle |-> "away", dnd |-> "dnd"]

C7_PrivateMessage ==
    (event.type = "message" /\ event.msg.private) =>
        /\ event.frm = DiscordPerson(event.msg.author)
        /\ event.to = DiscordPerson(ClientUser.id)
        /\ event.message_callbacks = 1

-----------------------------------------------------------------------------
(* Steps in which the caller enters a call on room object r: the call      *)
(* record changes to the named operation, and the caller was not blocked   *)
(* inside a call already.                                                  *)

Called(r, op) ==
    /\ call[r].outcome # "pending"
    /\ call'[r] # call[r]
    /\ call'[r].op = op

RoomUntouched(r) == rooms'[r] = rooms[r] /\ channels' = channels /\ loop' = loop

(* C3: create() on a room that exists fails with RoomError "Room exists",  *)
(* destroy() on a room that does not exist fails with RoomError "Room      *)
(* doesn't exist"; neither submits a coroutine, and the room's id and the  *)
(* live channels are unchanged.                                            *)
C3_GuardedByExistence ==
    [][\A r \in RoomIds :
          /\ (Called(r, "create") /\ exists(rooms[r])) =>
                (call'[r].outcome = "RoomError: Room exists" /\ RoomUntouched(r))
          /\ (Called(r, "destroy") /\ ~exists(rooms[r])) =>
                (call'[r].outcome = "RoomError: Room doesn't exist" /\ RoomUntouched(r))]_vars

C3_Witness ==
    \E r \in RoomIds :
        /\ exists(rooms[r])
        /\ call[r] = [op |-> "create", outcome |-> "RoomError: Room exists"]

TextChannels(channel_name, guild) ==
    {i \in DOMAIN channels :
        /\ channels[i].name = channel_name
        /\ channels[i].guild = guild
        /\ channels[i].kind = "text"}

(* C4: for a room object built while no text channel of its name existed,  *)
(* create() fails with "Room exists" whenever such a channel exists at the *)
(* time of its check, and a channel that create() adds is never the second *)
(* text channel of its name in the guild.                                  *)
C4_NoDuplicateCreation ==
    [][\A r \in RoomIds :
          /\ ( /\ Called(r, "create")
               /\ rooms[r].kind = "room"
               /\ rooms[r].channel_id = NoId
               /\ TextChannels(rooms[r].channel_name, rooms[r].guild_id) # {} )
             => call'[r].outcome = "RoomError: Room exists"
          /\ ( /\ Len(channels') = Len(channels) + 1
               /\ channels'[Len(channels')].origin = "bot"
               /\ channels'[Len(channels')].kind = "text" )
             => TextChannels(channels'[Len(channels')].name,
                             channels'[Len(channels')].guild) = {}]_vars

(* C5: once destroy() has succeeded on a room object, the object never    *)
(* again denotes a channel that the service has (its exists is at most the *)
(* cache still holding the deleted channel), and a room object that has an *)
(* id never goes back to having none.                                      *)
C5_DestroyedIsTerminal ==
    /\ [](\A r \in RoomIds :
             rooms[r].destroyed => ~(exists(rooms[r]) /\ OnService(rooms[r].channel_id)))
    /\ [][\A r \in RoomIds :
             rooms[r].channel_id # NoId => rooms'[r].channel_id # NoId]_vars

RuntimeErrors ==
    {"RuntimeError: Can't join channels", "RuntimeError: Can't join categories",
     "RuntimeError: Can't leave categories"}

OnlyCallChanged ==
    UNCHANGED <<channels, nextId, users, rooms, pc, loop, bot_identifier, event, sent, person, done>>

(* C9 as stated: on a plain room join() and leave() both return normally   *)
(* and change nothing; on a category both fail with a runtime error.       *)
C9_JoinLeaveAsStated ==
    [][\A r \in RoomIds :
          (Called(r, "join") \/ Called(r, "leave")) =>
              /\ OnlyCallChanged
              /\ rooms[r].kind = "room" => call'[r].outcome = "ok"
              /\ rooms[r].kind = "category" => call'[r].outcome \in RuntimeErrors]_vars

(* C9, amended: on a plain room leave() returns normally and join() fails  *)
(* with RuntimeError "Can't join channels"; on a category join() and       *)
(* leave() both fail with a runtime error; none of them changes the room,  *)
(* the channels or the loop.                                               *)
C9_JoinLeaveByKind ==
    [][\A r \in RoomIds :
          /\ Called(r, "leave") =>
              /\ OnlyCallChanged
              /\ rooms[r].kind = "room" => call'[r].outcome = "ok"
              /\ rooms[r].kind = "category" =>
                    call'[r].outcome = "RuntimeError: Can't leave categories"
          /\ Called(r, "join") =>
              /\ OnlyCallChanged
              /\ rooms[r].kind = "room" => call'[r].outcome = "RuntimeError: Can't join channels"
              /\ rooms[r].kind = "category" =>
                    call'[r].outcome = "RuntimeError: Can't join categories"]_vars

C9_Witness ==
    \E r \in RoomIds :
        /\ rooms[r].kind = "room"
        /\ exists(rooms[r])
        /\ call[r] = [op |-> "join", outcome |-> "RuntimeError: Can't join channels"]

(* The step in which a create() or destroy() that was blocked in its wait  *)
(* comes back to its caller.                                               *)
Returned(r, op) ==
    /\ call[r] = [op |-> op, outcome |-> "pending"]
    /\ call'[r].outcome # "pending"

(* The step in which the wait of the call on room r expires: its coroutine *)
(* is still on the loop and nobody waits for it any longer.                *)
WaitExpires(r) ==
    /\ pc[r] \in {"create_wait", "destroy_wait"}
    /\ Len(loop') = Len(loop)
    /\ \E i \in DOMAIN loop :
          loop[i].room = r /\ loop[i].waited /\ ~loop'[i].waited

(* The step in which the loop completes the coroutine that the call on     *)
(* room r waits for.                                                       *)
Completes(r, type) ==
    /\ Len(loop') = Len(loop) - 1
    /\ \E i \in DOMAIN loop :
          /\ loop[i].room = r /\ loop[i].waited /\ loop[i].type = type
          /\ loop' = Remove(loop, i)
    /\ done' = [outcome |-> "ok", type |-> type]

(* C11: create() and destroy() return normally only in the step in which  *)
(* their coroutine completes; after a normal return from create() the room *)
(* exists and its id is that of the channel just created; after a normal   *)
(* return from destroy() the room does not exist; and when the wait        *)
(* expires first the call fails with TimeoutError.                         *)
C11_BoundedWait ==
    [][\A r \in RoomIds :
          /\ (Returned(r, "create") /\ call'[r].outcome = "ok") =>
                /\ Completes(r, "create_room")
                /\ exists(rooms[r])'
                /\ Len(channels') = Len(channels) + 1
                /\ rooms'[r].channel_id = channels'[Len(channels')].id
          /\ (Returned(r, "destroy") /\ call'[r].outcome = "ok") =>
                /\ Completes(r, "delete")
                /\ ~exists(rooms[r])'
          /\ WaitExpires(r) =>
                /\ Returned(r, call[r].op)
                /\ call'[r].outcome = "TimeoutError"]_vars


-----------------------------------------------------------------------------
(* Steps of send_message that reach the submission loop: nothing leaves    *)
(* the event loop, and the record of the call or the loop changes.         *)

Submits ==
    /\ sent'.outcome = "ok"
    /\ Len(loop') >= Len(loop)
    /\ sent' # sent \/ loop' # loop

Submitted == [k \in 1..(Len(loop') - Len(loop)) |-> loop'[Len(loop) + k].content]

RECURSIVE Concat(_)
Concat(slices) == IF slices = <<>> THEN <<>> ELSE Head(slices) \o Concat(Tail(slices))

CeilDiv(n, m) == CHOOSE q \in 0..n : q * m >= n /\ (q = 0 \/ (q - 1) * m < n)

(* C2: send_message to a DiscordSender with a body of length L submits     *)
(* exactly ceil(L / M) send coroutines to the loop, behind what is already *)
(* pending and in the order of the text; each slice is at most M long and  *)
(* the slices concatenated in submission order are the body.               *)
C2_Chunking ==
    [][Submits =>
          /\ SubSeq(loop', 1, Len(loop)) = loop
          /\ \A k \in DOMAIN Submitted :
                /\ loop'[Len(loop) + k].type = "send"
                /\ Len(Submitted[k]) <= DISCORD_MESSAGE_SIZE_LIMIT
          /\ Len(Submitted) = CeilDiv(Len(sent'.body), DISCORD_MESSAGE_SIZE_LIMIT)
          /\ Concat(Submitted) = sent'.body]_vars

C2_Witness ==
    /\ sent.outcome = "ok"
    /\ Len(sent.body) = 2 * DISCORD_MESSAGE_SIZE_LIMIT + 1
    /\ Len(loop) = 3
    /\ Len(loop[3].content) = 1

(* C10: a 5000-character body is submitted as exactly three sends, of      *)
(* lengths 2000, 2000 and 1000 in that order.                              *)
C10_Scenario5000 ==
    [][(Submits /\ Len(sent'.body) = 5000) =>
          [k \in DOMAIN Submitted |-> Len(Submitted[k])] = <<2000, 2000, 1000>>]_vars

-----------------------------------------------------------------------------
(* C12: from_id(c) of a live channel c is a room whose id is c and that    *)
(* exists, whatever channels are live; the `to` room of a room message and *)
(* the room of its sender are the channel the message arrived on; and      *)
(* rooms() returns one room per live channel, with that channel's id.      *)
C12_RoomRoundTrip ==
    /\ [](\A c \in LiveIds : from_id(c).channel_id = c /\ exists(from_id(c)))
    /\ []((event.type = "message" /\ ~event.msg.private) =>
             /\ event.to.id = event.msg.channel
             /\ event.to.room.channel_id = event.msg.channel
             /\ event.frm.room.channel_id = event.msg.channel)
    /\ [][(event'.type = "rooms" /\ event' # event) =>
             /\ Len(event'.value) = Len(channels)
             /\ \A k \in DOMAIN channels :
                    event'.value[k].channel_id = channels[k].id]_vars

=============================================================================
